---- MODULE Spec2Model ----
(***************************************************************************)
(* Leaderboard parsing (src/src/leaderboard.py) and solve-state            *)
(* composition (src/src/tile_maker.py) of aoc_runner_tiles.                *)
(*                                                                         *)
(* Four specifications share the module:                                   *)
(*   SpecParse   parse_leaderboard, one step per table row                 *)
(*   SpecStars   TileMaker._get_stars as a pure function                   *)
(*   Spec        TileMaker.__call__ for one requested year:                *)
(*               compose_solve_data, one step per (language, year) pair,   *)
(*               with what each language ran read as the pair is reached,  *)
(*               then handle_year                                          *)
(*   SpecRun     compose_solve_data from call to return for two requested  *)
(*               years, every order of the languages, inputs given up front*)
(* A specification holds the variables of the others at their idle values. *)
(***************************************************************************)
EXTENDS Integers, Sequences, FiniteSets, TLC

VARIABLES
    \* ---- parse_leaderboard ----
    p_year,            \* argument year
    use_runtime,       \* argument use_runtime
    has_runtime_data,  \* runtime_data is not None
    html,              \* what get_leaderboard(year) returned (sentinel, marker)
    p_pc,              \* "idle" | "start" | "rows" | "returned" | "raised"
    n_rows,            \* table rows consumed so far
    line,              \* the row the loop body last worked on
    runtime_data,      \* the entries of runtime_data the row's lookups see
    day_to_scores,     \* the local day_to_scores
    p_error            \* the exception that left parse_leaderboard, or None

parse_vars == <<p_year, use_runtime, has_runtime_data, html, p_pc, n_rows,
                line, runtime_data, day_to_scores, p_error>>

VARIABLES
    \* ---- TileMaker configuration ----
    count_as_solved_when,        \* after "auto" is resolved
    what_to_show_on_right_side,  \* after "auto" is resolved
    create_all_days,
    \* ---- TileMaker._get_stars ----
    s_pc,              \* "idle" | "call" | "done"
    solved,            \* Optional[DayScores]: <<>> or <<record>>
    solution,          \* Optional[DataTracker]: <<>> or <<len(solution)>>
    s_stars            \* the value returned

config_vars == <<count_as_solved_when, what_to_show_on_right_side, create_all_days>>
stars_vars == <<s_pc, solved, solution, s_stars>>

VARIABLES
    \* ---- TileMaker.__call__ ----
    c_pc,              \* "idle" | "compose" | "returned" | "raised" | "done"
    languages,         \* argument languages
    years,             \* argument years
    tracked,           \* the years that are keys of solutions_by_year
    web,               \* year -> the document get_leaderboard serves
    idx,               \* position in itertools.product(languages, years)
    inputs,            \* <<language, year>> -> what the language ran that
                       \* year, where the whole of it is given up front
    attempt,           \* the (language, year) last folded in and what the
                       \* language ran: day -> len(day_to_solution[day])
    year_to_data,      \* solve_data.year_to_data
    fetches,           \* year -> calls of parse_leaderboard so far
    c_error,           \* the exception that left __call__, or None
    todo,              \* years handle_year is still to be called for
    calls              \* year -> day -> the handle_day call made for it

call_vars == <<c_pc, languages, years, tracked, web, idx, inputs, attempt,
               year_to_data, fetches, c_error, todo, calls>>

vars == <<parse_vars, config_vars, stars_vars, call_vars>>

----------------------------------------------------------------------------
\* Values

\* Python's None, as a field value and as "no exception".
None == "None"

\* First year of the part-2-only table layout.
Cutoff == 2025

\* range(1, 26): the last competition day.
LastDay == 25

\* Model bounds.
MaxFields == 6      \* score tokens on one table row
MaxRows == 2        \* table rows of one document
MaxLocal == 3       \* files of one day handed to _get_stars
NumLangs == 2       \* languages composed
MaxFiles == 2       \* files a language has for one day it ran

\* The years the model asks about: one of each layout era.
Years == {Cutoff - 1, Cutoff}

\* Days the languages ran and the served documents list.
Days == {1, LastDay}

\* The tokens a row is cut from: position i holds Template[i] or the dash.
Template == <<"00:12:34", "99", "888", "01:02:03", "45", "678", "7">>

Min(a, b) == IF a < b THEN a ELSE b
Max(a, b) == IF a > b THEN a ELSE b

\* Every row of n score tokens, each one the template's token or "-".
RowsOfLen(n) ==
    { [i \in 1..n |-> IF i \in dashed THEN "-" ELSE Template[Min(i, Len(Template))]]
        : dashed \in SUBSET (1..n) }

\* The day the parsed rows name (a later row for a day replaces an earlier).
DocDays == {5}

Lines == { [day |-> d, fields |-> f] :
             d \in DocDays, f \in UNION { RowsOfLen(n) : n \in 0..MaxFields } }

NoLine == [day |-> 0, fields |-> <<>>]

\* Measured runtimes, in microseconds (1.234567 s).
RuntimeValues == {1234567}

\* runtime_data restricted to the keys one row looks up.
TrackersFor(year, day) ==
    UNION { [ { <<year, day, p>> : p \in parts } -> RuntimeValues ]
              : parts \in SUBSET {1, 2} }

----------------------------------------------------------------------------
\* leaderboard.py

\* f"{x:.3f}": seconds with three decimals, from microseconds, rounded.
Pad3(n) == IF n < 10 THEN "00" \o ToString(n)
           ELSE IF n < 100 THEN "0" \o ToString(n) ELSE ToString(n)
Format3(us) ==
    LET ms == (us + 500) \div 1000
    IN  ToString(ms \div 1000) \o "." \o Pad3(ms % 1000)

\* list.insert(i, x), i counted from 0 and clamped to the end.
Insert(s, i, x) ==
    LET k == Min(i, Len(s))
    IN  SubSeq(s, 1, k) \o <<x>> \o SubSeq(s, k + 1, Len(s))

\* Mutant of DashToNone: the dash is kept as a score.
DashToNone_KeepDash(fields) == fields

\* scores = [s if s != "-" else None for s in scores]
DashToNone(fields) ==
    [i \in 1..Len(fields) |-> IF fields[i] = "-" THEN None ELSE fields[i]]

\* Mutant of PadPartTwoOnly: a whole absent part 1 is put before the row.
PadPartTwoOnly_PrependPartOne(scores) == <<None, None, None>> \o scores

\* if year >= 2025: two inserts at 1, and two more at 4 when len > 3
PadPartTwoOnly(scores) ==
    LET s1 == Insert(Insert(scores, 1, None), 1, None)
    IN  IF Len(s1) > 3 THEN Insert(Insert(s1, 4, None), 4, None) ELSE s1

Normalize(year, fields) ==
    IF year >= Cutoff THEN PadPartTwoOnly(DashToNone(fields))
    ELSE DashToNone(fields)

\* DayScores(*scores); fields not given keep their default None.
DayScores(scores) ==
    LET at(i) == IF i <= Len(scores) THEN scores[i] ELSE None
    IN  [time1 |-> at(1), rank1 |-> at(2), score1 |-> at(3),
         time2 |-> at(4), rank2 |-> at(5), score2 |-> at(6)]

\* try: f"{runtime_data[year, int(day), part]:.3f}" except KeyError: None
Lookup(rd, year, day, part) ==
    IF <<year, day, part>> \in DOMAIN rd
    THEN Format3(rd[<<year, day, part>>]) ELSE None

\* The loop body for one row: the exception it raises, or the record stored.
ParseRow(year, ln, use_rt, rd) ==
    LET scores == Normalize(year, ln.fields)
    IN  IF Len(scores) \notin {3, 6}
        THEN [error |-> "AssertionError", record |-> DayScores(<<>>)]
        ELSE IF ~use_rt
        THEN [error |-> None, record |-> DayScores(scores)]
        ELSE IF Len(scores) < 4      \* scores[3] = ... on a list of three
        THEN [error |-> "IndexError", record |-> DayScores(<<>>)]
        ELSE [error |-> None,
              record |-> DayScores(
                  [scores EXCEPT ![1] = Lookup(rd, year, ln.day, 1),
                                 ![4] = Lookup(rd, year, ln.day, 2)])]

\* The start marker the year's regular expression looks for.
StartMarker(year) == IF year < Cutoff THEN "legacy" ELSE "part2"

\* Lines 20-34: "ValueError", "empty" (the sentinel), "AssertionError"
\* (no table region) or "rows".
ParseHead(year, use_rt, has_rd, doc) ==
    IF use_rt /\ ~has_rd THEN "ValueError"
    ELSE IF doc.no_stars THEN "empty"
    ELSE IF doc.marker # StartMarker(year) THEN "AssertionError"
    ELSE "rows"

Headers == [no_stars : BOOLEAN, marker : {"none", "legacy", "part2"}]

ParseIdle ==
    /\ p_year = 0 /\ use_runtime = FALSE /\ has_runtime_data = FALSE
    /\ html = [no_stars |-> FALSE, marker |-> "none"]
    /\ p_pc = "idle" /\ n_rows = 0 /\ line = NoLine
    /\ runtime_data = <<>> /\ day_to_scores = <<>> /\ p_error = None

ParseInit ==
    /\ p_year \in Years
    /\ use_runtime \in BOOLEAN
    /\ has_runtime_data \in BOOLEAN
    /\ html \in Headers
    /\ p_pc = "start" /\ n_rows = 0 /\ line = NoLine
    /\ runtime_data = <<>> /\ day_to_scores = <<>> /\ p_error = None

\* Lines 20-35.
ParseBegin ==
    /\ p_pc = "start"
    /\ LET h == ParseHead(p_year, use_runtime, has_runtime_data, html)
       IN  /\ p_pc' = CASE h = "rows" -> "rows"
                        [] h = "empty" -> "returned"
                        [] OTHER -> "raised"
           /\ p_error' = IF h \in {"rows", "empty"} THEN None ELSE h
    /\ UNCHANGED <<p_year, use_runtime, has_runtime_data, html, n_rows, line,
                   runtime_data, day_to_scores>>
    /\ UNCHANGED <<config_vars, stars_vars, call_vars>>

\* Lines 37-59, one row of table_rows.
ParseRowStep ==
    /\ p_pc = "rows"
    /\ n_rows < MaxRows
    /\ \E ln \in Lines :
       \E rd \in IF use_runtime THEN TrackersFor(p_year, ln.day) ELSE {<<>>} :
         LET r == ParseRow(p_year, ln, use_runtime, rd)
         IN  /\ line' = ln
             /\ runtime_data' = rd
             /\ n_rows' = n_rows + 1
             /\ p_error' = r.error
             /\ IF r.error = None
                THEN /\ day_to_scores' =
                          [d \in DOMAIN day_to_scores \cup {ln.day} |->
                              IF d = ln.day THEN r.record ELSE day_to_scores[d]]
                     /\ p_pc' = "rows"
                ELSE /\ day_to_scores' = <<>>   \* the local is lost
                     /\ p_pc' = "raised"
    /\ UNCHANGED <<p_year, use_runtime, has_runtime_data, html>>
    /\ UNCHANGED <<config_vars, stars_vars, call_vars>>

\* Line 60; str.split yields at least one row.
ParseReturn ==
    /\ p_pc = "rows"
    /\ n_rows >= 1
    /\ p_pc' = "returned"
    /\ UNCHANGED <<p_year, use_runtime, has_runtime_data, html, n_rows, line,
                   runtime_data, day_to_scores, p_error>>
    /\ UNCHANGED <<config_vars, stars_vars, call_vars>>

----------------------------------------------------------------------------
\* tile_maker.py: TileMaker._get_stars

Rules == {"on_leaderboard", "file_exists", "either", "both"}
Shows == {"checkmark", "time_and_rank", "runtime"}

\* bool(x) of an Optional[str]
Bool(x) == IF x = None \/ x = "" THEN 0 ELSE 1

\* Lines 202-210. solved and solution are <<>> for None.
GetStars(rule, solved_, solution_) ==
    LET on_leaderboard == IF solved_ = <<>> THEN 0
                          ELSE Bool(solved_[1].rank1) + Bool(solved_[1].rank2)
        file_exists == IF solution_ = <<>> THEN 0 ELSE solution_[1]
    IN  CASE rule = "on_leaderboard" -> on_leaderboard
          [] rule = "file_exists" -> file_exists
          [] rule = "either" -> Max(on_leaderboard, file_exists)
          [] rule = "both" -> Min(on_leaderboard, file_exists)

\* Score records that differ in which ranks are populated.
RankRecords ==
    { DayScores(<<Template[1], r1, Template[3], Template[4], r2, Template[6]>>)
        : r1 \in {None, Template[2]}, r2 \in {None, Template[5]} }

ConfigIdle ==
    /\ count_as_solved_when = "file_exists"
    /\ what_to_show_on_right_side = "checkmark"
    /\ create_all_days = FALSE

StarsIdle ==
    /\ s_pc = "idle" /\ solved = <<>> /\ solution = <<>> /\ s_stars = 0

StarsInit ==
    /\ count_as_solved_when \in Rules
    /\ what_to_show_on_right_side = "checkmark"
    /\ create_all_days = FALSE
    /\ s_pc = "call"
    /\ solved \in {<<>>} \cup { <<r>> : r \in RankRecords }
    /\ solution \in {<<>>} \cup { <<n>> : n \in 0..MaxLocal }
    /\ s_stars = 0

StarsCall ==
    /\ s_pc = "call"
    /\ s_stars' = GetStars(count_as_solved_when, solved, solution)
    /\ s_pc' = "done"
    /\ UNCHANGED <<solved, solution>>
    /\ UNCHANGED <<parse_vars, config_vars, call_vars>>

----------------------------------------------------------------------------
\* leaderboard.py, the whole of parse_leaderboard on one document

RECURSIVE ParseRows(_, _, _, _, _)
ParseRows(year, rows, use_rt, rd, acc) ==
    IF rows = <<>> THEN [error |-> None, scores |-> acc]
    ELSE LET ln == Head(rows)
             r == ParseRow(year, ln, use_rt, rd)
         IN  IF r.error # None THEN [error |-> r.error, scores |-> <<>>]
             ELSE ParseRows(year, Tail(rows), use_rt, rd,
                     [d \in DOMAIN acc \cup {ln.day} |->
                         IF d = ln.day THEN r.record ELSE acc[d]])

\* Lines 19-60. "".split("\n") is [""]: a region with no text is one empty row.
ParseLeaderboard(year, doc, use_rt, has_rd, rd) ==
    LET h == ParseHead(year, use_rt, has_rd, doc)
        table_rows == IF doc.rows = <<>> THEN <<NoLine>> ELSE doc.rows
    IN  CASE h = "rows" -> ParseRows(year, table_rows, use_rt, rd, <<>>)
          [] h = "empty" -> [error |-> None, scores |-> <<>>]
          [] OTHER -> [error |-> h, scores |-> <<>>]

\* The documents get_leaderboard serves in the model.
DocNoStars == [no_stars |-> TRUE, marker |-> "none", rows |-> <<>>]
DocNotATable == [no_stars |-> FALSE, marker |-> "none", rows |-> <<>>]
DocLegacy ==
    [no_stars |-> FALSE, marker |-> "legacy",
     rows |-> << [day |-> 1, fields |-> SubSeq(Template, 1, 6)],
                 [day |-> LastDay,
                  fields |-> SubSeq(Template, 1, 3) \o <<"-", "-", "-">>] >>]
DocPartTwo ==
    [no_stars |-> FALSE, marker |-> "part2",
     rows |-> << [day |-> 1, fields |-> <<Template[1], Template[4]>>],
                 [day |-> LastDay, fields |-> <<Template[1], "-">>] >>]
WebDocs == {DocNoStars, DocNotATable, DocLegacy, DocPartTwo}

\* solutions_by_year as the runtime lookup: both parts of day 1 have a
\* measured runtime, no other day has one.
MeasuredRuntimes(year) ==
    [k \in { <<year, 1, p>> : p \in {1, 2} } |-> 1234567]

----------------------------------------------------------------------------
\* tile_maker.py: TileMaker.compose_solve_data

\* Lines 213-215.
IsLeaderboardNeeded(show, rule) ==
    \/ show \in {"time_and_rank", "runtime"}
    \/ rule \in {"on_leaderboard", "both", "either"}

\* dict.get(day): <<>> for None.
Get(d2s, day) == IF day \in DOMAIN d2s THEN <<d2s[day]>> ELSE <<>>

\* Mutant of DayStars: the day-25 rule is left out.
DayStars_NoBonus(rule, day, solved_, solution_) ==
    GetStars(rule, solved_, solution_)

\* Lines 234-236: the value stored for one day.
DayStars(rule, day, solved_, solution_) ==
    LET stars == GetStars(rule, solved_, solution_)
    IN  IF day = LastDay /\ stars = 1 THEN 2 ELSE stars

\* Line 238: day_to_stars[day] = stars.
StoreStars(old, day, stars) == stars

\* What a language ran in one year: day -> len(day_to_solution[day]).
Attempts == UNION { [ds -> 0..MaxFiles] : ds \in SUBSET Days }

NoAttempt == [language |-> 0, year |-> 0, files |-> <<>>]

NoYearData == [day_to_scores |-> <<>>, day_to_paths |-> <<>>, day_to_stars |-> <<>>]

YearDataOf(ytd, year) == IF year \in DOMAIN ytd THEN ytd[year] ELSE NoYearData

\* Lines 230-241 for one (language, year): the YearData stored.
FoldLanguage(yd, rule, language, att, scores) ==
    [day_to_scores |-> scores,
     day_to_paths |->
        [d \in DOMAIN yd.day_to_paths \cup DOMAIN att |->
            IF d \in DOMAIN att
            THEN Append(IF d \in DOMAIN yd.day_to_paths
                        THEN yd.day_to_paths[d] ELSE <<>>, language)
            ELSE yd.day_to_paths[d]],
     day_to_stars |->
        [d \in DOMAIN yd.day_to_stars \cup DOMAIN att |->
            IF d \in DOMAIN att
            THEN StoreStars(IF d \in DOMAIN yd.day_to_stars
                            THEN yd.day_to_stars[d] ELSE 0,
                            d, DayStars(rule, d, Get(scores, d), <<att[d]>>))
            ELSE yd.day_to_stars[d]]]

\* Lines 226-228: the day_to_scores the iteration works with, or the error
\* parse_leaderboard raises.
ScoresFor(ytd, year, show, rule, doc, rd) ==
    IF IsLeaderboardNeeded(show, rule)
    THEN ParseLeaderboard(year, doc, show = "runtime", TRUE, rd)
    ELSE [error |-> None, scores |-> YearDataOf(ytd, year).day_to_scores]

\* itertools.product(languages, years)
Product(ls, ys) ==
    [i \in 1..(Len(ls) * Len(ys)) |->
        <<ls[((i - 1) \div Len(ys)) + 1], ys[((i - 1) % Len(ys)) + 1]>>]

Put(f, k, v) == [x \in DOMAIN f \cup {k} |-> IF x = k THEN v ELSE f[x]]

CallInit ==
    /\ count_as_solved_when \in Rules
    /\ what_to_show_on_right_side \in Shows
    /\ create_all_days \in BOOLEAN
    /\ c_pc = "compose"
    /\ languages = [i \in 1..NumLangs |-> i]
    /\ years \in { <<y>> : y \in Years }
    /\ tracked \in SUBSET Years
    /\ web = <<>>
    /\ idx = 1 /\ inputs = <<>> /\ attempt = NoAttempt /\ year_to_data = <<>>
    /\ fetches = [y \in Years |-> 0]
    /\ c_error = None /\ todo = <<>> /\ calls = <<>>

\* Lines 220-221: the year is no key of solutions_by_year.
SkipYear ==
    /\ c_pc = "compose"
    /\ idx <= Len(Product(languages, years))
    /\ Product(languages, years)[idx][2] \notin tracked
    /\ idx' = idx + 1
    /\ UNCHANGED <<c_pc, languages, years, tracked, web, inputs, attempt,
                   year_to_data, fetches, c_error, todo, calls>>
    /\ UNCHANGED <<parse_vars, config_vars, stars_vars>>

\* Lines 223-241 for one (language, year).
FoldPair ==
    /\ c_pc = "compose"
    /\ idx <= Len(Product(languages, years))
    /\ LET language == Product(languages, years)[idx][1]
           year == Product(languages, years)[idx][2]
           needed == IsLeaderboardNeeded(what_to_show_on_right_side,
                                         count_as_solved_when)
       IN  /\ year \in tracked
           /\ \E doc \in (IF year \in DOMAIN web THEN {web[year]} ELSE WebDocs),
                 att \in Attempts :
                LET got == ScoresFor(year_to_data, year,
                                     what_to_show_on_right_side,
                                     count_as_solved_when, doc,
                                     MeasuredRuntimes(year))
                IN  /\ web' = IF needed THEN Put(web, year, doc) ELSE web
                    /\ fetches' = IF needed
                                  THEN [fetches EXCEPT ![year] = @ + 1]
                                  ELSE fetches
                    /\ IF got.error # None
                       THEN /\ c_pc' = "raised"
                            /\ c_error' = got.error
                            /\ UNCHANGED <<idx, attempt, year_to_data>>
                       ELSE /\ year_to_data' =
                                 Put(year_to_data, year,
                                     FoldLanguage(YearDataOf(year_to_data, year),
                                                  count_as_solved_when,
                                                  language, att, got.scores))
                            /\ attempt' = [language |-> language, year |-> year,
                                            files |-> att]
                            /\ idx' = idx + 1
                            /\ UNCHANGED <<c_pc, c_error>>
    /\ UNCHANGED <<languages, years, tracked, inputs, todo, calls>>
    /\ UNCHANGED <<parse_vars, config_vars, stars_vars>>

\* sorted(keys, reverse=True)
RECURSIVE SortedDesc(_)
SortedDesc(S) ==
    IF S = {} THEN <<>>
    ELSE LET m == CHOOSE x \in S : \A y \in S : y <= x
         IN  <<m>> \o SortedDesc(S \ {m})

\* Line 243, then lines 180-183 of __call__.
ComposeReturn ==
    /\ c_pc = "compose"
    /\ idx > Len(Product(languages, years))
    /\ c_pc' = "returned"
    /\ todo' = SortedDesc(DOMAIN year_to_data)
    /\ UNCHANGED <<languages, years, tracked, web, idx, inputs, attempt,
                   year_to_data, fetches, c_error, calls>>
    /\ UNCHANGED <<parse_vars, config_vars, stars_vars>>

----------------------------------------------------------------------------
\* tile_maker.py: TileMaker.handle_year

\* Line 294.
MaxSolvedDay(day_to_stars) ==
    LET starred == { d \in DOMAIN day_to_stars : day_to_stars[d] > 0 }
    IN  IF starred = {} THEN 0
        ELSE CHOOSE d \in starred : \A e \in starred : e <= d

\* Line 295.
MaxDay(cad, day_to_stars) == IF cad THEN LastDay ELSE MaxSolvedDay(day_to_stars)

\* Lines 269-274.
FillEmptyDays(day_to_solutions, max_day) ==
    [d \in DOMAIN day_to_solutions \cup 1..max_day |->
        IF d \in DOMAIN day_to_solutions THEN day_to_solutions[d] ELSE <<>>]

\* Line 300: the days of 1..max_day for which day_to_stars[day] raises KeyError.
MissingStars(day_to_stars, max_day) == (1..max_day) \ DOMAIN day_to_stars

\* Lines 298-301: the days a tile is drawn for before the loop ends or faults.
DrawnDays(day_to_stars, max_day) ==
    { d \in 1..max_day : \A e \in 1..d : e \in DOMAIN day_to_stars }

\* Lines 286-309 for the next year of the loop at line 183.
HandleYear ==
    /\ c_pc = "returned"
    /\ todo # <<>>
    /\ LET year == Head(todo)
           yd == year_to_data[year]
           max_day == MaxDay(create_all_days, yd.day_to_stars)
           filled == FillEmptyDays(yd.day_to_paths, max_day)
           drawn == DrawnDays(yd.day_to_stars, max_day)
       IN  /\ year_to_data' =
                [year_to_data EXCEPT ![year].day_to_paths = filled]
           /\ calls' = Put(calls, year,
                          [d \in drawn |->
                             [solutions |-> filled[d],
                              day_scores |-> Get(yd.day_to_scores, d),
                              stars |-> yd.day_to_stars[d]]])
           /\ IF MissingStars(yd.day_to_stars, max_day) # {}
              THEN /\ c_pc' = "raised"
                   /\ c_error' = "KeyError"
                   /\ todo' = todo
              ELSE /\ c_pc' = IF Tail(todo) = <<>> THEN "done" ELSE "returned"
                   /\ c_error' = c_error
                   /\ todo' = Tail(todo)
    /\ UNCHANGED <<languages, years, tracked, web, idx, inputs, attempt, fetches>>
    /\ UNCHANGED <<parse_vars, config_vars, stars_vars>>

\* Line 186 when no year was composed.
NothingToHandle ==
    /\ c_pc = "returned"
    /\ todo = <<>>
    /\ c_pc' = "done"
    /\ UNCHANGED <<languages, years, tracked, web, idx, inputs, attempt,
                   year_to_data, fetches, c_error, todo, calls>>
    /\ UNCHANGED <<parse_vars, config_vars, stars_vars>>

----------------------------------------------------------------------------
\* tile_maker.py: compose_solve_data from call to return, on given inputs

\* Lines 217-243: the year_to_data returned, or the exception raised (and
\* then nothing is returned). inp is <<language, year>> -> day -> file count.
ComposeRun(ls, ys, trk, webf, rule, show, inp) ==
    LET pairs == Product(ls, ys)
        RECURSIVE From(_, _)
        From(i, ytd) ==
            IF i > Len(pairs) THEN [error |-> None, data |-> ytd]
            ELSE LET language == pairs[i][1]
                     year == pairs[i][2]
                     got == ScoresFor(ytd, year, show, rule, webf[year],
                                      MeasuredRuntimes(year))
                 IN  IF year \notin trk THEN From(i + 1, ytd)
                     ELSE IF got.error # None
                     THEN [error |-> got.error, data |-> <<>>]
                     ELSE From(i + 1,
                               Put(ytd, year,
                                   FoldLanguage(YearDataOf(ytd, year), rule,
                                                language, inp[<<language, year>>],
                                                got.scores)))
    IN  From(1, <<>>)

\* The orders a list of n languages can be given in.
Orders(n) == { p \in [1..n -> 1..n] : \A i, j \in 1..n : p[i] = p[j] => i = j }

\* In the whole-run specification every language ran day 1 or nothing.
RunAttempts == {<<>>} \cup { [d \in {1} |-> n] : n \in 1..MaxFiles }

YearList == <<Cutoff - 1, Cutoff>>

RunInit ==
    /\ count_as_solved_when \in Rules
    /\ what_to_show_on_right_side \in Shows
    /\ create_all_days = FALSE
    /\ c_pc = "compose"
    /\ languages \in Orders(NumLangs)
    /\ years = YearList
    /\ tracked = Years
    /\ web \in [Years -> WebDocs]
    /\ idx = 1
    /\ inputs \in [(1..NumLangs) \X Years -> RunAttempts]
    /\ attempt = NoAttempt /\ year_to_data = <<>>
    /\ fetches = [y \in Years |-> 0]
    /\ c_error = None /\ todo = <<>> /\ calls = <<>>

\* Line 179 of __call__: solve_data = self.compose_solve_data(**kwargs)
ComposeAll ==
    /\ c_pc = "compose"
    /\ inputs # <<>>
    /\ LET r == ComposeRun(languages, years, tracked, web, count_as_solved_when,
                           what_to_show_on_right_side, inputs)
       IN  /\ year_to_data' = r.data
           /\ c_error' = r.error
           /\ c_pc' = IF r.error = None THEN "returned" ELSE "raised"
    /\ idx' = Len(Product(languages, years)) + 1
    /\ UNCHANGED <<languages, years, tracked, web, inputs, attempt, fetches,
                   todo, calls>>
    /\ UNCHANGED <<parse_vars, config_vars, stars_vars>>

----------------------------------------------------------------------------
\* Specifications

CallIdle ==
    /\ c_pc = "idle" /\ languages = <<>> /\ years = <<>> /\ tracked = {}
    /\ web = <<>> /\ idx = 0 /\ inputs = <<>> /\ attempt = NoAttempt
    /\ year_to_data = <<>>
    /\ fetches = <<>> /\ c_error = None /\ todo = <<>> /\ calls = <<>>

ParseNext == ParseBegin \/ ParseRowStep \/ ParseReturn

InitParse == ParseInit /\ ConfigIdle /\ StarsIdle /\ CallIdle

SpecParse == InitParse /\ [][ParseNext]_vars

StarsNext == StarsCall

InitStars == StarsInit /\ ParseIdle /\ CallIdle

SpecStars == InitStars /\ [][StarsNext]_vars

Init == CallInit /\ ParseIdle /\ StarsIdle

Next == SkipYear \/ FoldPair \/ ComposeReturn \/ HandleYear \/ NothingToHandle

Spec == Init /\ [][Next]_vars

InitRun == RunInit /\ ParseIdle /\ StarsIdle

RunNext == ComposeAll

SpecRun == InitRun /\ [][RunNext]_vars

----------------------------------------------------------------------------
\* Claims about parse_leaderboard (SpecParse)

\* The loop body has worked on the row in line.
RowDone == p_pc \in {"rows", "raised", "returned"} /\ n_rows >= 1

Leaves(rec) == <<rec.time1, rec.rank1, rec.score1,
                 rec.time2, rec.rank2, rec.score2>>
Populated(rec) == Cardinality({ i \in 1..6 : Leaves(rec)[i] # None })
NonDash(fields) == Cardinality({ i \in 1..Len(fields) : fields[i] # "-" })
Token(fields, i) ==
    IF i > Len(fields) \/ fields[i] = "-" THEN None ELSE fields[i]

PartTwoLine == [day |-> 5, fields |-> <<"-", "99", "888">>]

\* C5 as stated: from the cutoff year on, the row "5 - 99 888" is accepted
\* and gives day 5 with part 1 absent and part 2 = (absent, "99", "888").
C5_AsStated ==
    (RowDone /\ p_year >= Cutoff /\ ~use_runtime /\ line = PartTwoLine)
    => /\ p_error = None
       /\ 5 \in DOMAIN day_to_scores
       /\ day_to_scores[5] = DayScores(<<None, None, None, None, "99", "888">>)

\* C5, amended: from the cutoff year on a row is accepted exactly when it has
\* one or two score tokens, which become time1 and time2 with rank and score
\* of both parts absent (the two absent values are inserted after each
\* token, not before the first); any other row, "5 - 99 888" among them,
\* fails the 3-or-6 assertion.
C5_PartTwoOnlyRows ==
    (RowDone /\ p_year >= Cutoff /\ ~use_runtime)
    => LET n == Len(line.fields)
       IN  /\ p_error = (IF n \in {1, 2} THEN None ELSE "AssertionError")
           /\ n \in {1, 2} =>
                /\ line.day \in DOMAIN day_to_scores
                /\ day_to_scores[line.day] =
                     [time1 |-> Token(line.fields, 1), rank1 |-> None,
                      score1 |-> None, time2 |-> Token(line.fields, 2),
                      rank2 |-> None, score2 |-> None]

C5_Witness ==
    /\ RowDone /\ p_year >= Cutoff /\ ~use_runtime
    /\ line = PartTwoLine /\ p_error = "AssertionError"

\* C6 as stated: without runtime substitution every record returned has
\* 0, 3 or 6 populated leaf fields, each part's triple whole or absent.
C6_AsStated ==
    (p_pc = "returned" /\ ~use_runtime)
    => \A d \in DOMAIN day_to_scores :
         LET rec == day_to_scores[d]
             part1 == {rec.time1, rec.rank1, rec.score1}
             part2 == {rec.time2, rec.rank2, rec.score2}
         IN  /\ Populated(rec) \in {0, 3, 6}
             /\ part1 = {None} \/ None \notin part1
             /\ part2 = {None} \/ None \notin part2

\* C6, amended: without runtime substitution a record has as many populated
\* leaf fields as its row has tokens other than the dash, any number from 0
\* to 6; from the cutoff year on rank and score of both parts are always
\* absent, so at most the two times are populated; and a row normalized to
\* three fields leaves part 2 wholly absent.
C6_PopulatedLeaves ==
    (RowDone /\ ~use_runtime /\ p_error = None)
    => /\ line.day \in DOMAIN day_to_scores
       /\ LET rec == day_to_scores[line.day]
          IN  /\ Populated(rec) = NonDash(line.fields)
              /\ Len(line.fields) \in (IF p_year >= Cutoff THEN {1, 2} ELSE {3, 6})
              /\ Len(line.fields) \in {1, 3} =>
                   {rec.time2, rec.rank2, rec.score2} = {None}
       /\ p_year >= Cutoff =>
            \A d \in DOMAIN day_to_scores :
               /\ {day_to_scores[d].rank1, day_to_scores[d].score1,
                   day_to_scores[d].rank2, day_to_scores[d].score2} = {None}
               /\ Populated(day_to_scores[d]) <= 2

C6_Witness ==
    /\ p_pc = "returned" /\ ~use_runtime /\ p_year >= Cutoff
    /\ line.day \in DOMAIN day_to_scores
    /\ Populated(day_to_scores[line.day]) = 1

\* C10: with a runtime lookup supplied, a row that passes the 3-or-6
\* validation never makes the parse fail; time1 is the looked-up duration or
\* absent, time2 is overridden only when the row has a part-2 section, and a
\* three-field row gives a record with part 2 wholly absent.
C10_RuntimeSubstitution ==
    (RowDone /\ use_runtime /\ has_runtime_data
       /\ Len(Normalize(p_year, line.fields)) \in {3, 6})
    => /\ p_error = None
       /\ line.day \in DOMAIN day_to_scores
       /\ LET rec == day_to_scores[line.day]
          IN  /\ rec.time1 = Lookup(runtime_data, p_year, line.day, 1)
              /\ IF Len(Normalize(p_year, line.fields)) = 6
                 THEN rec.time2 = Lookup(runtime_data, p_year, line.day, 2)
                 ELSE {rec.time2, rec.rank2, rec.score2} = {None}

----------------------------------------------------------------------------
\* Claims about _get_stars (SpecStars)

RemoteSolved == IF solved = <<>> THEN 0
                ELSE Cardinality({ r \in {"rank1", "rank2"} : solved[1][r] # None })
LocalSolved == IF solution = <<>> THEN 0 ELSE solution[1]

\* C4: _get_stars is the reference table with local evidence capped at 2,
\* and its result is 0, 1 or 2.
C4_StarPolicy ==
    s_pc = "done"
    => /\ s_stars =
            CASE count_as_solved_when = "on_leaderboard" -> RemoteSolved
              [] count_as_solved_when = "file_exists" -> Min(LocalSolved, 2)
              [] count_as_solved_when = "either" ->
                    Max(RemoteSolved, Min(LocalSolved, 2))
              [] count_as_solved_when = "both" ->
                    Min(RemoteSolved, Min(LocalSolved, 2))
       /\ s_stars \in {0, 1, 2}

----------------------------------------------------------------------------
\* Claims about compose_solve_data and handle_year (Spec)

StarsOf(y) == year_to_data[y].day_to_stars

\* C1: folding one more language in never lowers a day's stored star count.
C1_MonotonicUpgrade ==
    [][ \A y \in DOMAIN year_to_data : \A d \in DOMAIN StarsOf(y) :
          /\ y \in DOMAIN year_to_data'
          /\ d \in DOMAIN year_to_data'[y].day_to_stars
          /\ year_to_data'[y].day_to_stars[d] >= StarsOf(y)[d] ]_vars

\* C3: the leaderboard of a year is fetched and parsed at most once a run.
C3_FetchedOncePerYear == \A y \in DOMAIN fetches : fetches[y] <= 1

\* C8: the star count stored for day 25 is never 1, and when _get_stars
\* gives 1 for day 25 of the language just folded in, 2 is stored.
C8_Day25Bonus ==
    /\ \A y \in DOMAIN year_to_data :
          LastDay \in DOMAIN StarsOf(y) => StarsOf(y)[LastDay] # 1
    /\ (/\ attempt.year \in DOMAIN year_to_data
        /\ LastDay \in DOMAIN attempt.files
        /\ GetStars(count_as_solved_when,
                    Get(year_to_data[attempt.year].day_to_scores, LastDay),
                    <<attempt.files[LastDay]>>) = 1)
       => StarsOf(attempt.year)[LastDay] = 2

C8_Witness ==
    /\ attempt.year \in DOMAIN year_to_data
    /\ LastDay \in DOMAIN attempt.files
    /\ GetStars(count_as_solved_when,
                Get(year_to_data[attempt.year].day_to_scores, LastDay),
                <<attempt.files[LastDay]>>) = 1
    /\ StarsOf(attempt.year)[LastDay] = 2

\* C9: handle_year ends without a fault and makes one handle_day call for
\* every day of 1..max_day, a day no language ran getting an empty language
\* list and 0 stars.
C9_EveryDayRendered ==
    /\ c_error # "KeyError"
    /\ \A y \in DOMAIN calls :
          LET max_day == MaxDay(create_all_days, StarsOf(y))
          IN  /\ DOMAIN calls[y] = 1..max_day
              /\ \A d \in (1..max_day) \ DOMAIN StarsOf(y) :
                    calls[y][d].solutions = <<>> /\ calls[y][d].stars = 0

----------------------------------------------------------------------------
\* Claims about a whole run of compose_solve_data (SpecRun)

Members(seq) == { seq[i] : i \in 1..Len(seq) }

\* C2: every order of the language list gives the same day_to_stars for
\* every year and the same set of contributing languages for every day.
C2_OrderIndependent ==
    c_pc = "returned"
    => \A p \in Orders(NumLangs) :
         LET other == ComposeRun(p, years, tracked, web, count_as_solved_when,
                                 what_to_show_on_right_side, inputs)
         IN  /\ other.error = None
             /\ DOMAIN other.data = DOMAIN year_to_data
             /\ \A y \in DOMAIN year_to_data :
                   /\ other.data[y].day_to_stars = StarsOf(y)
                   /\ DOMAIN other.data[y].day_to_paths =
                        DOMAIN year_to_data[y].day_to_paths
                   /\ \A d \in DOMAIN year_to_data[y].day_to_paths :
                        Members(other.data[y].day_to_paths[d]) =
                          Members(year_to_data[y].day_to_paths[d])

\* The year's leaderboard, when one is needed, parses.
Parses(y) ==
    \/ ~IsLeaderboardNeeded(what_to_show_on_right_side, count_as_solved_when)
    \/ ParseLeaderboard(y, web[y], what_to_show_on_right_side = "runtime",
                        TRUE, MeasuredRuntimes(y)).error = None

\* C7: a year whose leaderboard fails to parse takes only itself out of the
\* result; every other requested year is composed and present.
C7_ErrorIsolation ==
    c_pc \in {"returned", "raised"}
    => \A y \in Members(years) \cap tracked :
          Parses(y) => y \in DOMAIN year_to_data

====
